---- MODULE Spec2Model ----
(***************************************************************************)
(* A model of ciqual-mcp: the ingestion pipeline (data_loader.py), the      *)
(* schema (database.py) and the query gateway and entry point (server.py).  *)
(*                                                                          *)
(* Text is modelled as a sequence of one-character strings, so that         *)
(* trimming, lower-casing, prefix and substring tests are computed.  An     *)
(* optional value is a record: None, NoElem (find() found no child element) *)
(* or Str(<<...>>).                                                         *)
(***************************************************************************)
EXTENDS Integers, Sequences, FiniteSets, TLC

VARIABLES
    upstream,     \* the four XML documents of the archive at the fixed URL
    fileExists,   \* the store file exists at DB_PATH
    dbAge,        \* age in days of the store file's last modification
    disk,         \* the committed content of the store file
    conn,         \* initialize_database's connection: its uncommitted view
    inTx,         \* that connection has an open transaction
    ld_pc,        \* position of initialize_database
    force,        \* its force_update argument
    food_count,   \* its running counter of loaded foods
    main_pc,      \* position of main
    existedAtStart, \* history: the store file existed when main started
    initFailed,   \* history: main's call of initialize_database raised
    diskAtCall,   \* history: the store content when initialize_database was called
    failedAt,     \* history: the phase in which initialize_database raised
    runs,         \* history: number of calls of initialize_database started
    forcedDone,   \* history: store contents after each successful forced run
    q_sql,        \* query: the statement of the last call
    q_before,     \* history: the store content when the last call began
    q_result,     \* query: what the last call returned
    q_raised,     \* query: the last call raised to its caller
    q_executed,   \* query: the last call handed its statement to the engine
    q_failed,     \* history: opening the store or executing the statement raised
    q_open,       \* query: connections opened and not closed
    q_calls,      \* history: number of query calls made
    fn_arg,       \* a function applied on its own: its argument
    fn_ret,       \* what it returned
    fn_pc         \* "ready" before the application, "done" after it

vars == <<upstream, fileExists, dbAge, disk, conn, inTx, ld_pc, force, food_count,
          main_pc, existedAtStart, initFailed, diskAtCall, failedAt, runs, forcedDone,
          q_sql, q_before, q_result, q_raised, q_executed, q_failed, q_open, q_calls,
          fn_arg, fn_ret, fn_pc>>

ldVars == <<upstream, fileExists, dbAge, disk, conn, inTx, ld_pc, force, food_count,
            diskAtCall, failedAt, runs, forcedDone>>
mainVars == <<main_pc, existedAtStart, initFailed>>
qVars == <<q_sql, q_before, q_result, q_raised, q_executed, q_failed, q_open, q_calls>>
fnVars == <<fn_arg, fn_ret, fn_pc>>

----------------------------------------------------------------------------
(* Python values *)

None == [k |-> "None"]
NoElem == [k |-> "NoElem"]
Str(s) == [k |-> "str", v |-> s]
IsStr(x) == x.k = "str"

\* element.find(tag).text if element.find(tag) is not None else None
TextOrNone(x) == IF x = NoElem THEN None ELSE x

Whitespace == {" ", "\t", "\n", "\r"}
Digits == <<"0", "1", "2", "3", "4", "5", "6", "7", "8", "9">>
IsDigit(c) == \E i \in 1..10 : Digits[i] = c
DigitVal(c) == (CHOOSE i \in 1..10 : Digits[i] = c) - 1

UpperAlpha == <<"A", "B", "C", "D", "E", "F", "G", "H", "I", "J", "K", "L", "M",
                "N", "O", "P", "Q", "R", "S", "T", "U", "V", "W", "X", "Y", "Z">>
LowerAlpha == <<"a", "b", "c", "d", "e", "f", "g", "h", "i", "j", "k", "l", "m",
                "n", "o", "p", "q", "r", "s", "t", "u", "v", "w", "x", "y", "z">>
LowerChar(c) ==
    IF \E i \in 1..26 : UpperAlpha[i] = c
    THEN LowerAlpha[CHOOSE i \in 1..26 : UpperAlpha[i] = c]
    ELSE c

\* str.lower()
Lower(s) == [i \in 1..Len(s) |-> LowerChar(s[i])]

\* str.strip()
Strip(s) ==
    LET keep == {i \in 1..Len(s) : s[i] \notin Whitespace}
    IN IF keep = {} THEN <<>>
       ELSE LET lo == CHOOSE i \in keep : \A j \in keep : i <= j
                hi == CHOOSE i \in keep : \A j \in keep : j <= i
            IN SubSeq(s, lo, hi)

\* str.startswith(prefix)
StartsWith(s, p) == Len(p) <= Len(s) /\ SubSeq(s, 1, Len(p)) = p

\* needle in haystack
Contains(s, p) ==
    \E i \in 1..(Len(s) - Len(p) + 1) : SubSeq(s, i, i + Len(p) - 1) = p

\* str.replace(old, new) for a one-character old
RECURSIVE ReplaceChar(_, _, _)
ReplaceChar(s, old, new) ==
    IF s = <<>> THEN <<>>
    ELSE (IF Head(s) = old THEN new ELSE <<Head(s)>>) \o ReplaceChar(Tail(s), old, new)

----------------------------------------------------------------------------
(* data_loader.py: the normalizer *)

s_missing == <<"m", "i", "s", "s", "i", "n", "g">>
s_traces == <<"t", "r", "a", "c", "e", "s">>
s_dash == <<"-">>
s_nan == <<"n", "a", "n">>
s_inf == <<"i", "n", "f">>
s_infinity == <<"i", "n", "f", "i", "n", "i", "t", "y">>
s_per100 == <<"/", "1", "0", "0">>

clean_text(text) ==
    IF text = None THEN None
    ELSE LET t == Strip(text.v)
         IN IF t = <<>> \/ t = s_missing THEN None ELSE Str(t)

\* extract_unit: re.search(r'\(([^)]+/100\s?g)\)', name), then replace(' ', '').
\* The group holds no ")", so a match opening at i closes at the first ")" after i.
UnitMatchAt(s, i) ==
    /\ s[i] = "("
    /\ \E j \in (i + 1)..Len(s) :
          /\ s[j] = ")"
          /\ \A m \in (i + 1)..(j - 1) : s[m] # ")"
          /\ LET g == SubSeq(s, i + 1, j - 1)
                 n == Len(g)
             IN \/ /\ n >= 6
                   /\ g[n] = "g"
                   /\ SubSeq(g, n - 4, n - 1) = s_per100
                \/ /\ n >= 7
                   /\ g[n] = "g"
                   /\ g[n - 1] \in Whitespace
                   /\ SubSeq(g, n - 5, n - 2) = s_per100

extract_unit(nutrient_name) ==
    IF nutrient_name = None \/ nutrient_name.v = <<>> THEN None
    ELSE LET s == nutrient_name.v
             starts == {i \in 1..Len(s) : UnitMatchAt(s, i)}
         IN IF starts = {} THEN None
            ELSE LET i == CHOOSE a \in starts : \A b \in starts : a <= b
                     j == CHOOSE c \in (i + 1)..Len(s) :
                              s[c] = ")" /\ \A m \in (i + 1)..(c - 1) : s[m] # ")"
                 IN Str(ReplaceChar(SubSeq(s, i + 1, j - 1), " ", <<>>))

\* extract_unit(const_nom_fr) or extract_unit(const_nom_eng)
UnitOf(fr, eng) ==
    LET u == extract_unit(fr)
    IN IF u # None /\ u.v # <<>> THEN u ELSE extract_unit(eng)

\* A float: Real(n, s) is n / 10^s with no trailing zero digit in the fraction.
RECURSIVE Normal(_, _)
Normal(n, s) == IF s > 0 /\ n % 10 = 0 THEN Normal(n \div 10, s - 1) ELSE [k |-> "real", num |-> n, scale |-> s]
NaN == [k |-> "nan"]
Inf(neg) == [k |-> "inf", neg |-> neg]

RECURSIVE DigitsVal(_)
DigitsVal(s) == IF s = <<>> THEN 0 ELSE 10 * DigitsVal(SubSeq(s, 1, Len(s) - 1)) + DigitVal(s[Len(s)])
AllDigits(s) == \A i \in 1..Len(s) : IsDigit(s[i])

\* Python's float(str) on the decimal and the special forms (no exponent part,
\* no digit-group underscores): [ok |-> FALSE] stands for ValueError.
FloatOfParts(ip, fp, neg) ==
    IF AllDigits(ip) /\ AllDigits(fp) /\ Len(ip) + Len(fp) > 0
    THEN [ok |-> TRUE, v |-> Normal((IF neg THEN -1 ELSE 1) * DigitsVal(ip \o fp), Len(fp))]
    ELSE [ok |-> FALSE]

FloatOfDecimal(body, neg, dots) ==
    IF Cardinality(dots) > 1 THEN [ok |-> FALSE]
    ELSE IF dots = {} THEN FloatOfParts(body, <<>>, neg)
    ELSE FloatOfParts(SubSeq(body, 1, (CHOOSE i \in dots : TRUE) - 1),
                      SubSeq(body, (CHOOSE i \in dots : TRUE) + 1, Len(body)), neg)

FloatOfBody(body, neg) ==
    IF Lower(body) = s_nan THEN [ok |-> TRUE, v |-> NaN]
    ELSE IF Lower(body) \in {s_inf, s_infinity} THEN [ok |-> TRUE, v |-> Inf(neg)]
    ELSE FloatOfDecimal(body, neg, {i \in 1..Len(body) : body[i] = "."})

FloatOfStripped(t) ==
    IF t # <<>> /\ t[1] \in {"+", "-"} THEN FloatOfBody(Tail(t), t[1] = "-")
    ELSE FloatOfBody(t, FALSE)

PyFloat(str) == FloatOfStripped(Strip(str))

\* try: return float(...) except ValueError: return None
FloatOrNone(f) == IF f.ok THEN f.v ELSE None

parse_number(value) ==
    IF value = None \/ Strip(value.v) \in {<<>>, s_dash, s_traces} THEN None
    ELSE FloatOrNone(PyFloat(ReplaceChar(Strip(value.v), ",", <<".">>)))

\* Python's int(str) on an optionally signed run of digits; ValueError otherwise.
PyIntOk(s) ==
    LET t == Strip(s)
        body == IF t # <<>> /\ t[1] \in {"+", "-"} THEN Tail(t) ELSE t
    IN body # <<>> /\ AllDigits(body)
PyInt(s) ==
    LET t == Strip(s)
        neg == t[1] = "-"
        body == IF t[1] \in {"+", "-"} THEN Tail(t) ELSE t
    IN (IF neg THEN -1 ELSE 1) * DigitsVal(body)

----------------------------------------------------------------------------
(* database.py: the store.  A table is the set of its rows. *)

EmptyDb ==
    [schema |-> FALSE, foods |-> {}, nutrients |-> {}, food_groups |-> {},
     composition |-> {}, fts |-> {}, ftsTotal |-> 0]

\* executescript(SCHEMA_SQL): CREATE ... IF NOT EXISTS, destroying nothing.
CreateSchema(db) == [db EXCEPT !.schema = TRUE]

\* SQLite binds a NaN as NULL; every other float is stored as a REAL.
SqlReal(x) == IF x = NaN THEN None ELSE x

\* INSERT OR REPLACE INTO nutrients: const_code is the primary key.
InsertNutrient(db, row) ==
    [db EXCEPT !.nutrients = {r \in @ : r.const_code # row.const_code} \cup {row}]

\* INSERT OR REPLACE INTO food_groups: grp_code is the primary key.
InsertGroup(db, row) ==
    [db EXCEPT !.food_groups = {r \in @ : r.grp_code # row.grp_code} \cup {row}]

\* INSERT OR REPLACE INTO foods: alim_code is the primary key.
InsertFood(db, row) ==
    [db EXCEPT !.foods = {r \in @ : r.alim_code # row.alim_code} \cup {row}]

\* Whether the engine refuses a composition row whose food or nutrient is not
\* stored.  database.py declares both FOREIGN KEYs, but SQLite enforces them only
\* under PRAGMA foreign_keys = ON, which no connection of the program sets.
ForeignKeysEnforced == FALSE

FkViolated(db, row) ==
    /\ ForeignKeysEnforced
    /\ \/ \A f \in db.foods : f.alim_code # row.alim_code
       \/ \A n \in db.nutrients : n.const_code # row.const_code

\* INSERT OR REPLACE INTO composition: (alim_code, const_code) is the primary key.
InsertComposition(db, row) ==
    [db EXCEPT !.composition =
        {r \in @ : ~(r.alim_code = row.alim_code /\ r.const_code = row.const_code)}
        \cup {[row EXCEPT !.teneur = SqlReal(@)]}]

\* cursor.executemany(INSERT OR REPLACE INTO composition ..., batch): the rows in
\* order; [ok |-> FALSE] when the engine refuses one (IntegrityError).
RECURSIVE ExecuteMany(_, _)
ExecuteMany(db, batch) ==
    IF batch = <<>> THEN [ok |-> TRUE, db |-> db]
    ELSE IF FkViolated(db, Head(batch)) THEN [ok |-> FALSE, db |-> db]
    ELSE ExecuteMany(InsertComposition(db, Head(batch)), Tail(batch))

(* foods_fts is an FTS5 table with content=foods.  Its index entries carry the  *)
(* rowid they were inserted with.  INSERT INTO foods_fts SELECT alim_code, ...  *)
(* names no rowid, so each entry gets the next free rowid of the index, not the *)
(* food's alim_code.  DELETE FROM foods_fts walks the rows of foods and removes *)
(* for each the index entry whose rowid is that food's alim_code, counting the  *)
(* index's row total down; it fails (and the statement is undone) when the      *)
(* total would drop below zero.  Food identifiers are taken above every rowid   *)
(* the index reaches within the bounds, as in the dataset's first generation.   *)
FtsMaxRowid(db) ==
    IF db.fts = {} THEN 0
    ELSE CHOOSE m \in {e.rowid : e \in db.fts} : \A e \in db.fts : e.rowid <= m

\* DELETE FROM foods_fts
FtsDelete(db) ==
    IF Cardinality(db.foods) > db.ftsTotal
    THEN [ok |-> FALSE, db |-> db]
    ELSE [ok |-> TRUE,
          db |-> [db EXCEPT !.fts = {e \in @ : \A f \in db.foods : f.alim_code # e.rowid},
                            !.ftsTotal = @ - Cardinality(db.foods)]]

\* The rows of foods in rowid (alim_code) order.
RECURSIVE FoodsInOrder(_)
FoodsInOrder(foods) ==
    IF foods = {} THEN <<>>
    ELSE LET f == CHOOSE a \in foods : \A b \in foods : a.alim_code <= b.alim_code
         IN <<f>> \o FoodsInOrder(foods \ {f})

\* INSERT INTO foods_fts SELECT alim_code, alim_nom_fr, alim_nom_eng FROM foods
FtsInsert(db) ==
    LET rows == FoodsInOrder(db.foods)
        base == FtsMaxRowid(db)
    IN [db EXCEPT !.fts = @ \cup {[rowid |-> base + i,
                                   alim_code |-> rows[i].alim_code,
                                   alim_nom_fr |-> rows[i].alim_nom_fr,
                                   alim_nom_eng |-> rows[i].alim_nom_eng] : i \in 1..Len(rows)},
                  !.ftsTotal = @ + Len(rows)]

\* try: conn.execute("DELETE FROM foods_fts") except: pass; then the INSERT.
RebuildIndex(db) ==
    LET d == FtsDelete(db)
    IN FtsInsert(IF d.ok THEN d.db ELSE db)

----------------------------------------------------------------------------
(* data_loader.py: the load phases of initialize_database.  A document is      *)
(* Doc(records), Unreadable (ET.parse raises on it) or AbsentFile (the archive *)
(* held no such member).  A phase yields [ok, db]: ok = FALSE when it raised.  *)

Doc(recs) == [k |-> "doc", recs |-> recs]
Unreadable == [k |-> "unreadable"]
AbsentFile == [k |-> "absent"]

\* ET.parse(file).getroot().findall(tag): raises unless the file parses.
Parses(doc) == doc.k = "doc"

\* Lines 156-166.  const.find("const_code").text is read unguarded: a CONST with
\* no const_code child raises AttributeError.
RECURSIVE LoadNutrientRecords(_, _)
LoadNutrientRecords(db, recs) ==
    IF recs = <<>> THEN [ok |-> TRUE, db |-> db]
    ELSE LET const == Head(recs)
         IN IF const.const_code = NoElem THEN [ok |-> FALSE, db |-> db]
            ELSE LET const_code == clean_text(const.const_code)
                     const_nom_fr == TextOrNone(const.const_nom_fr)
                     const_nom_eng == TextOrNone(const.const_nom_eng)
                 IN IF const_code = None THEN LoadNutrientRecords(db, Tail(recs))
                    ELSE IF ~PyIntOk(const_code.v) THEN [ok |-> FALSE, db |-> db]
                    ELSE LoadNutrientRecords(
                             InsertNutrient(db, [const_code |-> PyInt(const_code.v),
                                                 const_nom_fr |-> const_nom_fr,
                                                 const_nom_eng |-> const_nom_eng,
                                                 unit |-> UnitOf(const_nom_fr, const_nom_eng)]),
                             Tail(recs))

LoadNutrients(db, doc) ==
    IF Parses(doc) THEN LoadNutrientRecords(db, doc.recs) ELSE [ok |-> FALSE, db |-> db]

\* Lines 175-184.
RECURSIVE LoadGroupRecords(_, _)
LoadGroupRecords(db, recs) ==
    IF recs = <<>> THEN [ok |-> TRUE, db |-> db]
    ELSE LET grp == Head(recs)
             grp_code == clean_text(TextOrNone(grp.alim_grp_code))
         IN IF grp_code = None THEN LoadGroupRecords(db, Tail(recs))
            ELSE LoadGroupRecords(
                     InsertGroup(db, [grp_code |-> grp_code,
                                      grp_nom_fr |-> TextOrNone(grp.alim_grp_nom_fr),
                                      grp_nom_eng |-> TextOrNone(grp.alim_grp_nom_eng)]),
                     Tail(recs))

\* Lines 170-184: the phase is skipped when the file does not exist.
LoadGroups(db, doc) ==
    IF doc = AbsentFile THEN [ok |-> TRUE, db |-> db]
    ELSE IF Parses(doc) THEN LoadGroupRecords(db, doc.recs)
    ELSE [ok |-> FALSE, db |-> db]

\* Lines 212-224: [ok, db, n] with n the running food_count.
RECURSIVE LoadFoodRecords(_, _, _)
LoadFoodRecords(db, recs, n) ==
    IF recs = <<>> THEN [ok |-> TRUE, db |-> db, n |-> n]
    ELSE LET alim == Head(recs)
             alim_code == clean_text(TextOrNone(alim.alim_code))
         IN IF alim_code = None THEN LoadFoodRecords(db, Tail(recs), n)
            ELSE IF ~PyIntOk(alim_code.v) THEN [ok |-> FALSE, db |-> db, n |-> n]
            ELSE LoadFoodRecords(
                     InsertFood(db, [alim_code |-> PyInt(alim_code.v),
                                     alim_nom_fr |-> TextOrNone(alim.alim_nom_fr),
                                     alim_nom_eng |-> TextOrNone(alim.alim_nom_eng),
                                     alim_grp_code |-> clean_text(TextOrNone(alim.alim_grp_code))]),
                     Tail(recs), n + 1)

LoadFoods(db, doc) ==
    IF Parses(doc) THEN LoadFoodRecords(db, doc.recs, 0) ELSE [ok |-> FALSE, db |-> db, n |-> 0]

\* Line 265: len(batch) >= 1000
BatchSize == 1000

\* Lines 252-279: [ok, db, n] with n the compo_count; batch is flushed when it
\* reaches size rows and once more, if not empty, after the last record.
RECURSIVE LoadCompoRecords(_, _, _, _, _)

\* Lines 274-279: the remaining batch.
FlushRest(w, batch, n) == [ok |-> w.ok, db |-> w.db, n |-> n + Len(batch)]

\* A full batch that is written and kept.
FlushFullKeepsBatch(w, recs, b, n, size) ==
    IF w.ok THEN LoadCompoRecords(w.db, Tail(recs), b, n + Len(b), size)
    ELSE [ok |-> FALSE, db |-> w.db, n |-> n]

\* Lines 265-271: a full batch is written and the batch emptied.
FlushFull(w, recs, b, n, size) ==
    IF w.ok THEN LoadCompoRecords(w.db, Tail(recs), <<>>, n + Len(b), size)
    ELSE [ok |-> FALSE, db |-> w.db, n |-> n]

\* Lines 263-271, with b the batch after the append.
Appended(db, recs, b, n, size) ==
    IF Len(b) >= size THEN FlushFull(ExecuteMany(db, b), recs, b, n, size)
    ELSE LoadCompoRecords(db, Tail(recs), b, n, size)

\* Lines 260-263 for one COMPO record, its four fields read.
CompoRecord(db, recs, batch, n, size, alim_code, const_code, teneur_value, code_confiance) ==
    IF alim_code = None \/ const_code = None \/ teneur_value = None
    THEN LoadCompoRecords(db, Tail(recs), batch, n, size)
    ELSE IF ~PyIntOk(alim_code.v) \/ ~PyIntOk(const_code.v)
    THEN [ok |-> FALSE, db |-> db, n |-> n]
    ELSE Appended(db, recs,
                  Append(batch, [alim_code |-> PyInt(alim_code.v),
                                 const_code |-> PyInt(const_code.v),
                                 teneur |-> teneur_value,
                                 code_confiance |-> code_confiance]),
                  n, size)

LoadCompoRecords(db, recs, batch, n, size) ==
    IF recs = <<>>
    THEN IF batch = <<>> THEN [ok |-> TRUE, db |-> db, n |-> n]
         ELSE FlushRest(ExecuteMany(db, batch), batch, n)
    ELSE CompoRecord(db, recs, batch, n, size,
                     clean_text(TextOrNone(Head(recs).alim_code)),
                     clean_text(TextOrNone(Head(recs).const_code)),
                     parse_number(TextOrNone(Head(recs).teneur)),
                     clean_text(TextOrNone(Head(recs).code_confiance)))

LoadComposition(db, doc) ==
    IF Parses(doc) THEN LoadCompoRecords(db, doc.recs, <<>>, 0, BatchSize)
    ELSE [ok |-> FALSE, db |-> db, n |-> 0]

\* Lines 146-289 when no phase raises: the connection's view before the commit.
Ingest(db, snapshot) ==
    RebuildIndex(
        LoadComposition(
            LoadFoods(
                LoadGroups(
                    LoadNutrients(CreateSchema(db), snapshot.nutrients).db,
                    snapshot.groups).db,
                snapshot.foods).db,
            snapshot.compo).db)

----------------------------------------------------------------------------
(* The archives the model draws from *)

\* The longest document the model draws, in records.
MaxRecs == 2
\* The most calls of initialize_database in one behaviour.
MaxRuns == 2

t_ca_fr == <<"C", "a", " ", "(", "m", "g", "/", "1", "0", "0", " ", "g", ")">>
t_ca_eng == <<"C", "a", "l", "c", "i", "u", "m">>
t_fer_fr == <<"F", "e", "r">>
t_fer_eng == <<"I", "r", "o", "n", " ", "(", "m", "g", "/", "1", "0", "0", "g", ")">>
t_pomme == <<"P", "o", "m", "m", "e">>
t_apple == <<"A", "p", "p", "l", "e">>
t_poire == <<"P", "o", "i", "r", "e">>
t_pear == <<"P", "e", "a", "r">>
t_fruits == <<"f", "r", "u", "i", "t", "s">>

NutrientRec(code) ==
    [const_code |-> code, const_nom_fr |-> Str(t_ca_fr), const_nom_eng |-> Str(t_ca_eng)]
GroupRec(code) ==
    [alim_grp_code |-> code, alim_grp_nom_fr |-> Str(t_fruits), alim_grp_nom_eng |-> Str(t_fruits)]
FoodRec(code) ==
    [alim_code |-> code, alim_nom_fr |-> Str(t_pomme), alim_nom_eng |-> Str(t_apple),
     alim_grp_code |-> Str(<<"g">>)]
CompoRec(alim, const, teneur) ==
    [alim_code |-> alim, const_code |-> const, teneur |-> teneur, code_confiance |-> Str(<<"A">>)]

Good1 == CompoRec(Str(<<"5", "1">>), Str(<<"7">>), Str(<<"1", ",", "5">>))
Good2 == CompoRec(Str(<<"5", "2">>), Str(<<"7">>), Str(<<"1", "2", ",", "5">>))

NutrientKinds == {NutrientRec(c) : c \in {NoElem, None, Str(<<"7">>), Str(<<" ", "8">>)}}
GroupKinds == {GroupRec(c) : c \in {NoElem, None, Str(<<"g">>)}}
\* A food whose names carry padding and the dataset's 'missing' marker.
t_poire_padded == <<" ", "P", "o", "i", "r", "e", " ">>
t_missing_padded == <<" ", "m", "i", "s", "s", "i", "n", "g", " ">>
PaddedFood ==
    [alim_code |-> Str(<<"5", "2">>), alim_nom_fr |-> Str(t_poire_padded),
     alim_nom_eng |-> Str(t_missing_padded), alim_grp_code |-> Str(t_missing_padded)]
FoodKinds ==
    {FoodRec(c) : c \in {NoElem, None, Str(<<"5", "1">>), Str(<<"5", "2", " ">>),
                         Str(<<"x">>)}}
    \cup {PaddedFood}
\* Good records, and records that differ from Good1 in one field.
CompoKinds ==
    {Good1, Good2}
    \cup {CompoRec(a, Good1.const_code, Good1.teneur) : a \in {NoElem, Str(<<"5", "3">>)}}
    \cup {CompoRec(Good1.alim_code, c, Good1.teneur) : c \in {NoElem, Str(<<"9">>)}}
    \cup {CompoRec(Good1.alim_code, Good1.const_code, t) :
            t \in {NoElem, None, Str(<<"-">>), Str(s_traces), Str(<<"a", "b", "c">>),
                   Str(s_nan)}}

SeqsUpTo(S, n) == UNION {[1..m -> S] : m \in 0..n}
DocsOver(S) == {Doc(r) : r \in SeqsUpTo(S, MaxRecs)} \cup {Unreadable, AbsentFile}

Canon ==
    [nutrients |-> Doc(<<NutrientRec(Str(<<"7">>))>>),
     groups |-> Doc(<<GroupRec(Str(<<"g">>))>>),
     foods |-> Doc(<<FoodRec(Str(<<"5", "1">>)), FoodRec(Str(<<"5", "2">>))>>),
     compo |-> Doc(<<Good1, Good2>>)]

\* Every archive that differs from Canon in at most one document.
Snapshots ==
    {[Canon EXCEPT !.nutrients = d] : d \in DocsOver(NutrientKinds)}
    \cup {[Canon EXCEPT !.groups = d] : d \in DocsOver(GroupKinds)}
    \cup {[Canon EXCEPT !.foods = d] : d \in DocsOver(FoodKinds)}
    \cup {[Canon EXCEPT !.compo = d] : d \in DocsOver(CompoKinds)}

\* The archive of an earlier release, and the store an ingestion built from it.
PrevSnapshot ==
    [nutrients |-> Doc(<<NutrientRec(Str(<<"7">>)),
                         [const_code |-> Str(<<"9">>), const_nom_fr |-> Str(t_fer_fr),
                          const_nom_eng |-> Str(t_fer_eng)]>>),
     groups |-> Doc(<<GroupRec(Str(<<"g">>))>>),
     foods |-> Doc(<<[alim_code |-> Str(<<"5", "1">>), alim_nom_fr |-> Str(t_poire),
                      alim_nom_eng |-> Str(t_pear), alim_grp_code |-> Str(<<"g">>)],
                     FoodRec(Str(<<"5", "3">>))>>),
     compo |-> Doc(<<CompoRec(Str(<<"5", "1">>), Str(<<"7">>), Str(<<"3">>)),
                     CompoRec(Str(<<"5", "3">>), Str(<<"9">>), Str(<<"4">>))>>)]
PrevStore == Ingest(EmptyDb, PrevSnapshot)

----------------------------------------------------------------------------
(* data_loader.py: should_update_database and initialize_database *)

\* Line 96: db_age_days > 365
FreshnessDays == 365
\* The ages, in days, a store file is seen at.
Ages == {0, FreshnessDays, FreshnessDays + 1}

\* A freshness window that closes on its last day.
StaleOnLastDay(exists, age) == ~exists \/ age >= FreshnessDays
\* not db_path.exists() or db_age_days > 365
should_update_database(exists, age) == ~exists \/ age > FreshnessDays

\* conn.commit(): the connection's view becomes the file's content.
Commit(committed, working) == working
\* A rollback that discards nothing.
RollbackKeepsWrites(committed, working) == working
\* conn.rollback(): the connection's view is discarded.
Rollback(committed, working) == committed

Stopped == {"off", "exit0", "exit1"}

\* A caller enters initialize_database(force_update = f).
Call(f) ==
    /\ ld_pc = "idle"
    /\ runs < MaxRuns
    /\ ld_pc' = "check"
    /\ force' = f
    /\ runs' = runs + 1
    /\ diskAtCall' = disk
    /\ failedAt' = "none"
    /\ food_count' = 0
    /\ UNCHANGED <<upstream, fileExists, dbAge, disk, conn, inTx, forcedDone>>

\* An exception leaves the try block: conn.rollback(), raise, conn.close().
\* The store file holds what the rollback leaves in it.
Fail(phase) ==
    /\ disk' = Rollback(disk, conn)
    /\ conn' = disk'
    /\ inTx' = FALSE
    /\ ld_pc' = "raised"
    /\ failedAt' = phase

\* The call is over: its frame and its closed connection are gone.
Leave ==
    /\ ld_pc' = "idle"
    /\ conn' = EmptyDb
    /\ inTx' = FALSE
    /\ force' = FALSE
    /\ food_count' = 0
    /\ diskAtCall' = disk
    /\ failedAt' = "none"
    /\ UNCHANGED <<upstream, fileExists, dbAge, disk, runs, forcedDone>>

\* Lines 118-120: nothing to do for a fresh store unless forced.
LdCheck ==
    /\ ld_pc = "check"
    /\ ld_pc' = IF ~force /\ fileExists /\ ~should_update_database(fileExists, dbAge)
                THEN "returned" ELSE "download"
    /\ UNCHANGED <<upstream, fileExists, dbAge, disk, conn, inTx, force, food_count,
                   diskAtCall, failedAt, runs, forcedDone>>
    /\ UNCHANGED <<mainVars, qVars, fnVars>>

\* Lines 132-134: urlopen raises, or the archive is written to the scratch area.
LdDownload ==
    /\ ld_pc = "download"
    /\ \E ok \in BOOLEAN :
          /\ ld_pc' = IF ok THEN "extract" ELSE "raised"
          /\ failedAt' = IF ok THEN failedAt ELSE "download"
    /\ UNCHANGED <<upstream, fileExists, dbAge, disk, conn, inTx, force, food_count,
                   diskAtCall, runs, forcedDone>>
    /\ UNCHANGED <<mainVars, qVars, fnVars>>

\* Lines 138-139: ZipFile raises, or the members are extracted.
LdExtract ==
    /\ ld_pc = "extract"
    /\ \E ok \in BOOLEAN :
          /\ ld_pc' = IF ok THEN "connect" ELSE "raised"
          /\ failedAt' = IF ok THEN failedAt ELSE "extract"
    /\ UNCHANGED <<upstream, fileExists, dbAge, disk, conn, inTx, force, food_count,
                   diskAtCall, runs, forcedDone>>
    /\ UNCHANGED <<mainVars, qVars, fnVars>>

\* Lines 142-143: sqlite3.connect(db_path) creates an empty file when none exists.
LdConnect ==
    /\ ld_pc = "connect"
    /\ fileExists' = TRUE
    /\ disk' = IF fileExists THEN disk ELSE EmptyDb
    /\ dbAge' = IF fileExists THEN dbAge ELSE 0
    /\ conn' = disk'
    /\ inTx' = FALSE
    /\ ld_pc' = "schema"
    /\ UNCHANGED <<upstream, force, food_count, diskAtCall, failedAt, runs, forcedDone>>
    /\ UNCHANGED <<mainVars, qVars, fnVars>>

\* Line 148: executescript runs outside any transaction, each CREATE committed
\* as it runs; or it raises (the file is not a database, the disk is full).
LdSchema ==
    /\ ld_pc = "schema"
    /\ \E ok \in BOOLEAN :
          IF ok
          THEN /\ disk' = CreateSchema(disk)
               /\ conn' = CreateSchema(conn)
               /\ dbAge' = IF disk.schema THEN dbAge ELSE 0
               /\ ld_pc' = "nutrients"
               /\ UNCHANGED <<inTx, failedAt>>
          ELSE /\ Fail("schema")
               /\ UNCHANGED dbAge
    /\ UNCHANGED <<upstream, fileExists, force, food_count, diskAtCall, runs, forcedDone>>
    /\ UNCHANGED <<mainVars, qVars, fnVars>>

\* Lines 150-166.  The first INSERT opens the transaction.
LdNutrients ==
    /\ ld_pc = "nutrients"
    /\ \E r \in {LoadNutrients(conn, upstream.nutrients)} :
          IF r.ok
          THEN /\ conn' = r.db
               /\ inTx' = (inTx \/ r.db # conn)
               /\ ld_pc' = "groups"
               /\ UNCHANGED <<disk, failedAt>>
          ELSE Fail("nutrients")
    /\ UNCHANGED <<upstream, fileExists, dbAge, force, food_count, diskAtCall,
                   runs, forcedDone>>
    /\ UNCHANGED <<mainVars, qVars, fnVars>>

\* Lines 168-184.
LdGroups ==
    /\ ld_pc = "groups"
    /\ \E r \in {LoadGroups(conn, upstream.groups)} :
          IF r.ok
          THEN /\ conn' = r.db
               /\ inTx' = (inTx \/ r.db # conn)
               /\ ld_pc' = "foods"
               /\ UNCHANGED <<disk, failedAt>>
          ELSE Fail("groups")
    /\ UNCHANGED <<upstream, fileExists, dbAge, force, food_count, diskAtCall,
                   runs, forcedDone>>
    /\ UNCHANGED <<mainVars, qVars, fnVars>>

\* Lines 186-226.
LdFoods ==
    /\ ld_pc = "foods"
    /\ \E r \in {LoadFoods(conn, upstream.foods)} :
          IF r.ok
          THEN /\ conn' = r.db
               /\ inTx' = (inTx \/ r.db # conn)
               /\ food_count' = r.n
               /\ ld_pc' = "compo"
               /\ UNCHANGED <<disk, failedAt>>
          ELSE Fail("foods") /\ UNCHANGED food_count
    /\ UNCHANGED <<upstream, fileExists, dbAge, force, diskAtCall, runs, forcedDone>>
    /\ UNCHANGED <<mainVars, qVars, fnVars>>

\* Lines 228-281.
LdCompo ==
    /\ ld_pc = "compo"
    /\ \E r \in {LoadComposition(conn, upstream.compo)} :
          IF r.ok
          THEN /\ conn' = r.db
               /\ inTx' = (inTx \/ r.db # conn)
               /\ ld_pc' = "fts"
               /\ UNCHANGED <<disk, failedAt>>
          ELSE Fail("compo")
    /\ UNCHANGED <<upstream, fileExists, dbAge, force, food_count, diskAtCall,
                   runs, forcedDone>>
    /\ UNCHANGED <<mainVars, qVars, fnVars>>

\* Lines 283-289: a failing DELETE is swallowed, a failing INSERT raises.
LdFts ==
    /\ ld_pc = "fts"
    /\ \E ok \in BOOLEAN :
          IF ok
          THEN /\ conn' = RebuildIndex(conn)
               /\ inTx' = (inTx \/ conn' # conn)
               /\ ld_pc' = "commit"
               /\ UNCHANGED <<disk, failedAt>>
          ELSE Fail("fts")
    /\ UNCHANGED <<upstream, fileExists, dbAge, force, food_count, diskAtCall,
                   runs, forcedDone>>
    /\ UNCHANGED <<mainVars, qVars, fnVars>>

\* Line 292.
LdCommit ==
    /\ ld_pc = "commit"
    /\ disk' = Commit(disk, conn)
    /\ dbAge' = IF disk' # disk THEN 0 ELSE dbAge
    /\ inTx' = FALSE
    /\ ld_pc' = "verify"
    /\ UNCHANGED <<upstream, fileExists, conn, force, food_count, diskAtCall, failedAt,
                   runs, forcedDone>>
    /\ UNCHANGED <<mainVars, qVars, fnVars>>

\* Lines 294-311: the counts are read back after the commit; an empty foods
\* table raises, and the handler's rollback finds no open transaction.
LdVerify ==
    /\ ld_pc = "verify"
    /\ food_count' = Cardinality(conn.foods)
    /\ IF food_count' = 0
       THEN Fail("verify") /\ UNCHANGED forcedDone
       ELSE /\ ld_pc' = "returned"
            /\ forcedDone' = IF force THEN Append(forcedDone, disk) ELSE forcedDone
            /\ UNCHANGED <<disk, conn, inTx, failedAt>>
    /\ UNCHANGED <<upstream, fileExists, dbAge, force, diskAtCall, runs>>
    /\ UNCHANGED <<mainVars, qVars, fnVars>>

----------------------------------------------------------------------------
(* server.py: main *)

\* Lines 117-120: no store file, first run.
MainFirstRun ==
    /\ main_pc \in Stopped
    /\ ~fileExists
    /\ Call(FALSE)
    /\ main_pc' = "first_run"
    /\ existedAtStart' = fileExists
    /\ initFailed' = FALSE
    /\ UNCHANGED <<qVars, fnVars>>

\* Lines 123-126: the store is outdated.
MainUpdate ==
    /\ main_pc \in Stopped
    /\ fileExists
    /\ should_update_database(fileExists, dbAge)
    /\ Call(TRUE)
    /\ main_pc' = "update"
    /\ existedAtStart' = fileExists
    /\ initFailed' = FALSE
    /\ UNCHANGED <<qVars, fnVars>>

\* Neither branch of lines 117-128: straight to mcp.run().
MainUpToDate ==
    /\ main_pc \in Stopped
    /\ ld_pc = "idle"
    /\ fileExists
    /\ ~should_update_database(fileExists, dbAge)
    /\ main_pc' = "serving"
    /\ existedAtStart' = fileExists
    /\ initFailed' = FALSE
    /\ UNCHANGED <<ldVars, qVars, fnVars>>

\* Lines 121-122, 127-128, 138-141.
MainInitialized ==
    /\ main_pc \in {"first_run", "update"}
    /\ ld_pc = "returned"
    /\ main_pc' = "serving"
    /\ Leave
    /\ UNCHANGED <<existedAtStart, initFailed, qVars, fnVars>>

\* Lines 129-136: whether the failure is fatal is decided on whether the store
\* file exists now, after initialize_database has run.
MainInitFailed ==
    /\ main_pc \in {"first_run", "update"}
    /\ ld_pc = "raised"
    /\ main_pc' = IF ~fileExists THEN "exit1" ELSE "serving"
    /\ initFailed' = TRUE
    /\ Leave
    /\ UNCHANGED <<existedAtStart, qVars, fnVars>>

\* Lines 141-145: mcp.run() serves until the process is interrupted.
MainStops ==
    /\ main_pc = "serving"
    /\ main_pc' = "exit0"
    /\ UNCHANGED <<ldVars, existedAtStart, initFailed, qVars, fnVars>>

\* Between two runs of the program the store file grows older than the window.
TimePasses ==
    /\ main_pc \in Stopped
    /\ ld_pc = "idle"
    /\ fileExists
    /\ dbAge < FreshnessDays + 1
    /\ dbAge' = FreshnessDays + 1
    /\ UNCHANGED <<upstream, fileExists, disk, conn, inTx, ld_pc, force, food_count,
                   diskAtCall, failedAt, runs, forcedDone>>
    /\ UNCHANGED <<mainVars, qVars, fnVars>>

----------------------------------------------------------------------------
(* server.py: query.  The texts the handler compares, returns and is given. *)

\* 'select'
k_select ==
    <<"s", "e", "l", "e", "c", "t">>
\* 'with'
k_with ==
    <<"w", "i", "t", "h">>
\* 'no such table'
s_no_such_table ==
    <<"n", "o", " ", "s", "u", "c", "h", " ", "t", "a", "b", "l", "e">>
\* 'read-only'
s_read_only ==
    <<"r", "e", "a", "d", "-", "o", "n", "l", "y">>
\* 'readonly'
s_readonly ==
    <<"r", "e", "a", "d", "o", "n", "l", "y">>
\* 'not initialized'
s_not_initialized ==
    <<"n", "o", "t", " ", "i", "n", "i", "t", "i", "a", "l", "i", "z", "e", "d">>
\* 'Database not initialized. Please run the server first to download data.'
m_not_initialized ==
    <<"D", "a", "t", "a", "b", "a", "s", "e", " ", "n", "o", "t", " ", "i", "n", "i",
      "t", "i", "a", "l", "i", "z", "e", "d", ".", " ", "P", "l", "e", "a", "s", "e",
      " ", "r", "u", "n", " ", "t", "h", "e", " ", "s", "e", "r", "v", "e", "r", " ",
      "f", "i", "r", "s", "t", " ", "t", "o", " ", "d", "o", "w", "n", "l", "o", "a",
      "d", " ", "d", "a", "t", "a", ".">>
\* 'Only SELECT queries are allowed for safety.'
m_only_select ==
    <<"O", "n", "l", "y", " ", "S", "E", "L", "E", "C", "T", " ", "q", "u", "e", "r",
      "i", "e", "s", " ", "a", "r", "e", " ", "a", "l", "l", "o", "w", "e", "d", " ",
      "f", "o", "r", " ", "s", "a", "f", "e", "t", "y", ".">>
\* 'Table not found. Available tables: foods, nutrients, composition, foods_fts, food_groups'
m_table_not_found ==
    <<"T", "a", "b", "l", "e", " ", "n", "o", "t", " ", "f", "o", "u", "n", "d", ".",
      " ", "A", "v", "a", "i", "l", "a", "b", "l", "e", " ", "t", "a", "b", "l", "e",
      "s", ":", " ", "f", "o", "o", "d", "s", ",", " ", "n", "u", "t", "r", "i", "e",
      "n", "t", "s", ",", " ", "c", "o", "m", "p", "o", "s", "i", "t", "i", "o", "n",
      ",", " ", "f", "o", "o", "d", "s", "_", "f", "t", "s", ",", " ", "f", "o", "o",
      "d", "_", "g", "r", "o", "u", "p", "s">>
\* 'Database is read-only. Only SELECT queries are allowed.'
m_read_only ==
    <<"D", "a", "t", "a", "b", "a", "s", "e", " ", "i", "s", " ", "r", "e", "a", "d",
      "-", "o", "n", "l", "y", ".", " ", "O", "n", "l", "y", " ", "S", "E", "L", "E",
      "C", "T", " ", "q", "u", "e", "r", "i", "e", "s", " ", "a", "r", "e", " ", "a",
      "l", "l", "o", "w", "e", "d", ".">>
\* 'SQL error: '
p_sql_error ==
    <<"S", "Q", "L", " ", "e", "r", "r", "o", "r", ":", " ">>
\* 'Database error: '
p_database_error ==
    <<"D", "a", "t", "a", "b", "a", "s", "e", " ", "e", "r", "r", "o", "r", ":", " ">>
\* 'Unexpected error: '
p_unexpected_error ==
    <<"U", "n", "e", "x", "p", "e", "c", "t", "e", "d", " ", "e", "r", "r", "o", "r",
      ":", " ">>
\* 'attempt to write a readonly database'
e_readonly ==
    <<"a", "t", "t", "e", "m", "p", "t", " ", "t", "o", " ", "w", "r", "i", "t", "e",
      " ", "a", " ", "r", "e", "a", "d", "o", "n", "l", "y", " ", "d", "a", "t", "a",
      "b", "a", "s", "e">>
\* 'no such table: foods'
e_no_foods ==
    <<"n", "o", " ", "s", "u", "c", "h", " ", "t", "a", "b", "l", "e", ":", " ", "f",
      "o", "o", "d", "s">>
\* 'no such table: meals'
e_no_meals ==
    <<"n", "o", " ", "s", "u", "c", "h", " ", "t", "a", "b", "l", "e", ":", " ", "m",
      "e", "a", "l", "s">>
\* 'You can only execute one statement at a time.'
e_one_statement ==
    <<"Y", "o", "u", " ", "c", "a", "n", " ", "o", "n", "l", "y", " ", "e", "x", "e",
      "c", "u", "t", "e", " ", "o", "n", "e", " ", "s", "t", "a", "t", "e", "m", "e",
      "n", "t", " ", "a", "t", " ", "a", " ", "t", "i", "m", "e", ".">>
\* 'near "x": syntax error'
e_syntax ==
    <<"n", "e", "a", "r", " ", "\"", "x", "\"", ":", " ", "s", "y", "n", "t", "a", "x",
      " ", "e", "r", "r", "o", "r">>
\* 'unable to open database file'
e_unable_to_open ==
    <<"u", "n", "a", "b", "l", "e", " ", "t", "o", " ", "o", "p", "e", "n", " ", "d",
      "a", "t", "a", "b", "a", "s", "e", " ", "f", "i", "l", "e">>
\* 'file is not a database'
e_not_a_database ==
    <<"f", "i", "l", "e", " ", "i", "s", " ", "n", "o", "t", " ", "a", " ", "d", "a",
      "t", "a", "b", "a", "s", "e">>
\* 'SELECT * FROM foods'
sql_select_foods ==
    <<"S", "E", "L", "E", "C", "T", " ", "*", " ", "F", "R", "O", "M", " ", "f", "o",
      "o", "d", "s">>
\* '\n\tSeLeCt 1'
sql_select_one ==
    <<"\n", "\t", "S", "e", "L", "e", "C", "t", " ", "1">>
\* 'INSERT INTO foods DEFAULT VALUES'
sql_insert ==
    <<"I", "N", "S", "E", "R", "T", " ", "I", "N", "T", "O", " ", "f", "o", "o", "d",
      "s", " ", "D", "E", "F", "A", "U", "L", "T", " ", "V", "A", "L", "U", "E", "S">>
\* '  delete from foods'
sql_delete ==
    <<" ", " ", "d", "e", "l", "e", "t", "e", " ", "f", "r", "o", "m", " ", "f", "o",
      "o", "d", "s">>
\* ' '
sql_blank ==
    <<" ">>
\* 'with t as (select 1) delete from foods'
sql_with_delete ==
    <<"w", "i", "t", "h", " ", "t", " ", "a", "s", " ", "(", "s", "e", "l", "e", "c",
      "t", " ", "1", ")", " ", "d", "e", "l", "e", "t", "e", " ", "f", "r", "o", "m",
      " ", "f", "o", "o", "d", "s">>
\* 'select * from meals'
sql_select_meals ==
    <<"s", "e", "l", "e", "c", "t", " ", "*", " ", "f", "r", "o", "m", " ", "m", "e",
      "a", "l", "s">>
\* 'select 1; delete from foods'
sql_two ==
    <<"s", "e", "l", "e", "c", "t", " ", "1", ";", " ", "d", "e", "l", "e", "t", "e",
      " ", "f", "r", "o", "m", " ", "f", "o", "o", "d", "s">>
\* 'select * from foods wher x'
sql_bad ==
    <<"s", "e", "l", "e", "c", "t", " ", "*", " ", "f", "r", "o", "m", " ", "f", "o",
      "o", "d", "s", " ", "w", "h", "e", "r", " ", "x">>

\* 'insert'
k_insert ==
    <<"i", "n", "s", "e", "r", "t">>

\* The most calls of query in one behaviour.
MaxQueries == 2

\* A statement: its text, and what the engine makes of it once it is handed over.
Stmt(text, kind) == [text |-> text, kind |-> kind]
Statements ==
    {Stmt(sql_select_foods, "read_foods"), Stmt(sql_select_one, "read_one"),
     Stmt(sql_insert, "write_foods"), Stmt(sql_delete, "write_foods"),
     Stmt(sql_blank, "empty"), Stmt(sql_with_delete, "write_foods"),
     Stmt(sql_select_meals, "read_meals"), Stmt(sql_two, "two"),
     Stmt(sql_bad, "syntax")}

\* What a call meets: nothing unusual; the file cannot be opened; the file is not
\* a database; memory runs out while the rows are fetched.
Environments == {"ok", "cannot_open", "not_a_database", "out_of_memory"}

\* A raised exception.  OperationalError and ProgrammingError derive from
\* DatabaseError, that from sqlite3.Error, that from Exception, as MemoryError does.
Exc(cls, msg) == [cls |-> cls, msg |-> msg]
IsOperationalError(e) == e.cls = "OperationalError"
IsSqliteError(e) == e.cls \in {"OperationalError", "ProgrammingError", "DatabaseError"}
IsException(e) == e.cls \in {"OperationalError", "ProgrammingError", "DatabaseError",
                             "MemoryError"}

Raises(e, db) == [ok |-> FALSE, e |-> e, db |-> db]
Returns(rows, db) == [ok |-> TRUE, rows |-> rows, db |-> db]

\* The write of the modelled write statements, where the engine allows it.
ApplyWrite(db) == [db EXCEPT !.foods = {}]

\* A connection opened for reading and writing.
WritableConn == FALSE
\* Line 79 opens the file with mode=ro and line 83 sets PRAGMA query_only = ON.
ReadOnlyConn == TRUE

\* A statement that names a table of the schema, on a file that is a database.
OnTables(stmt, db, readonly) ==
    IF ~db.schema THEN Raises(Exc("OperationalError", e_no_foods), db)
    ELSE IF stmt.kind = "read_foods" THEN Returns(FoodsInOrder(db.foods), db)
    ELSE IF readonly THEN Raises(Exc("OperationalError", e_readonly), db)
    ELSE Returns(<<>>, ApplyWrite(db))

\* Line 85, conn.execute(sql): the engine's verdict on the statement.
Execute(stmt, db, env, readonly) ==
    IF stmt.kind = "two" THEN Raises(Exc("ProgrammingError", e_one_statement), db)
    ELSE IF stmt.kind = "syntax" THEN Raises(Exc("OperationalError", e_syntax), db)
    ELSE IF stmt.kind = "empty" THEN Returns(<<>>, db)
    ELSE IF stmt.kind = "read_one" THEN Returns(<<[c \in {"1"} |-> 1]>>, db)
    ELSE IF env = "not_a_database" THEN Raises(Exc("DatabaseError", e_not_a_database), db)
    ELSE IF stmt.kind = "read_meals" THEN Raises(Exc("OperationalError", e_no_meals), db)
    ELSE OnTables(stmt, db, readonly)

\* 'database disk image is malformed'
e_malformed ==
    <<"d", "a", "t", "a", "b", "a", "s", "e", " ", "d", "i", "s", "k", " ", "i", "m",
      "a", "g", "e", " ", "i", "s", " ", "m", "a", "l", "f", "o", "r", "m", "e", "d">>

\* The tokens the index holds for a name.  The names of the model are single
\* words: the tokenizer folds their case and drops the padding around them.
Tokens(name) == IF name = None THEN {} ELSE {Lower(Strip(name.v))}

\* The index entries a MATCH on token selects.
Matching(db, token) ==
    {e \in db.fts : token \in Tokens(e.alim_nom_fr) \cup Tokens(e.alim_nom_eng)}

\* The columns foods_fts shows of a foods row.
IndexedColumns(f) ==
    [alim_code |-> f.alim_code, alim_nom_fr |-> f.alim_nom_fr, alim_nom_eng |-> f.alim_nom_eng]

\* The foods rows whose rowid (alim_code) is one of ids.
ContentRows(db, ids) == {IndexedColumns(f) : f \in {g \in db.foods : g.alim_code \in ids}}

\* SELECT * FROM foods_fts WHERE foods_fts MATCH token.  The table keeps no
\* copy of the text (content=foods): the columns of a matching entry are read
\* from the foods row whose rowid is the entry's rowid, and the engine raises
\* when foods has no such row.
SearchRowids(db, ids) ==
    IF \E r \in ids : \A f \in db.foods : f.alim_code # r
    THEN Raises(Exc("DatabaseError", e_malformed), db)
    ELSE Returns(FoodsInOrder(ContentRows(db, ids)), db)
Search(db, token) == SearchRowids(db, {e.rowid : e \in Matching(db, token)})

\* Line 86, cursor.fetchall() and the dict of each row.
Fetch(x, env) ==
    IF x.ok /\ env = "out_of_memory" THEN Raises(Exc("MemoryError", <<>>), x.db) ELSE x

\* Lines 72-73: sql.strip().lower().startswith(('select', 'with'))
Accepted(sql) ==
    StartsWith(Lower(Strip(sql)), k_select) \/ StartsWith(Lower(Strip(sql)), k_with)

ErrorRow(msg) == [error |-> msg]
Answer(rows) == [raised |-> FALSE, rows |-> rows]
Propagates == [raised |-> TRUE, rows |-> <<>>]

\* A handler with the first except clause alone.
HandleOperationalOnly(e) ==
    IF IsOperationalError(e) THEN Answer(<<ErrorRow(p_sql_error \o e.msg)>>) ELSE Propagates

\* Lines 90-103: the three except clauses, in order.
Handle(e) ==
    IF IsOperationalError(e)
    THEN IF Contains(e.msg, s_no_such_table) THEN Answer(<<ErrorRow(m_table_not_found)>>)
         ELSE IF Contains(e.msg, s_read_only) \/ Contains(e.msg, s_readonly)
         THEN Answer(<<ErrorRow(m_read_only)>>)
         ELSE Answer(<<ErrorRow(p_sql_error \o e.msg)>>)
    ELSE IF IsSqliteError(e) THEN Answer(<<ErrorRow(p_database_error \o e.msg)>>)
    ELSE IF IsException(e) THEN Answer(<<ErrorRow(p_unexpected_error \o e.msg)>>)
    ELSE Propagates

\* Lines 104-106: the connection bound at line 79 is closed.
Close(open) == open - 1

\* What a call leaves: the rows returned (or that it raised), whether the
\* statement reached the engine, whether the open or the execution raised, the
\* connections left open, and the store.
Outcome(a, executed, failed, open, db) ==
    [rows |-> a.rows, raised |-> a.raised, executed |-> executed, failed |-> failed,
     open |-> open, db |-> db]

\* Lines 85-106, the connection open.
Executed(x) ==
    IF x.ok THEN Outcome(Answer(x.rows), TRUE, FALSE, Close(1), x.db)
    ELSE Outcome(Handle(x.e), TRUE, TRUE, Close(1), x.db)

\* Lines 66-106.
query(stmt, exists, db, env) ==
    IF ~exists
    THEN Outcome(Answer(<<ErrorRow(m_not_initialized)>>), FALSE, FALSE, 0, db)
    ELSE IF ~Accepted(stmt.text)
    THEN Outcome(Answer(<<ErrorRow(m_only_select)>>), FALSE, FALSE, 0, db)
    ELSE IF env = "cannot_open"
    THEN Outcome(Handle(Exc("OperationalError", e_unable_to_open)), FALSE, TRUE, 0, db)
    ELSE Executed(Fetch(Execute(stmt, db, env, ReadOnlyConn), env))

\* One call of the query tool.
Query ==
    /\ q_calls < MaxQueries
    /\ \E stmt \in Statements, env \in Environments :
          \E r \in {query(stmt, fileExists, disk, env)} :
             /\ q_sql' = stmt
             /\ q_before' = disk
             /\ q_result' = r.rows
             /\ q_raised' = r.raised
             /\ q_executed' = r.executed
             /\ q_failed' = r.failed
             /\ q_open' = q_open + r.open
             /\ disk' = r.db
    /\ q_calls' = q_calls + 1
    /\ UNCHANGED <<upstream, fileExists, dbAge, conn, inTx, ld_pc, force, food_count,
                   diskAtCall, failedAt, runs, forcedDone>>
    /\ UNCHANGED <<mainVars, fnVars>>

----------------------------------------------------------------------------
(* data_loader.py: the normalizer's functions, applied on their own.  fn_arg  *)
(* names the function and holds its argument; fn_ret is what it returned.     *)

\* The texts parse_number is applied to.
NumberTexts ==
    {None,
     Str(<<>>),
     Str(<<" ">>),
     Str(<<"-">>),
     Str(<<"t", "r", "a", "c", "e", "s">>),
     Str(<<" ", "t", "r", "a", "c", "e", "s", " ">>),
     Str(<<"1", "2", ",", "5">>),
     Str(<<"1", "0", "0">>),
     Str(<<" ", "1", "2", ",", "5", " ">>),
     Str(<<"1", ".", "5">>),
     Str(<<"+", "3">>),
     Str(<<"-", "2", ",", "5">>),
     Str(<<".", "5">>),
     Str(<<"5", ".">>),
     Str(<<"a", "b", "c">>),
     Str(<<"1", ",", "2", ",", "3">>),
     Str(<<"1", " ", "0", "0", "0">>),
     Str(<<"-", "-", "1">>),
     Str(<<"n", "a", "n">>),
     Str(<<"N", "a", "N">>),
     Str(<<"i", "n", "f">>),
     Str(<<"-", "i", "n", "f">>),
     Str(<<"I", "n", "f", "i", "n", "i", "t", "y">>),
     Str(<<"1", ",", ",", "5">>),
     Str(<<"t", "r", "a", "c", "e">>),
     Str(<<"0">>)}

ParseNumberArgs == {[fn |-> "parse_number", value |-> v] : v \in NumberTexts}

\* parse_number(value)
ApplyParseNumber ==
    /\ fn_pc = "ready"
    /\ fn_arg.fn = "parse_number"
    /\ fn_ret' = parse_number(fn_arg.value)
    /\ fn_pc' = "done"
    /\ UNCHANGED <<fn_arg, ldVars, mainVars, qVars>>

\* The nutrient names extract_unit is applied to.
UnitNames ==
    {None,
     Str(<<>>),
     Str(<<"C", "a", "l", "c", "i", "u", "m", " ", "(", "m", "g", "/", "1", "0", "0", "g", ")">>),
     Str(<<"V", "i", "t", "a", "m", "i", "n", " ", "C", " ", "(", "m", "g", "/", "1", "0", "0", " ", "g", ")">>),
     Str(<<"E", "n", "e", "r", "g", "y">>),
     Str(<<"C", "a", " ", "(", "m", "g", "/", "1", "0", "0", "\t", "g", ")">>),
     Str(<<"C", "a", " ", "(", "m", "g", "\t", "/", "1", "0", "0", "g", ")">>),
     Str(<<"C", "a", " ", "(", "m", " ", "g", "/", "1", "0", "0", " ", "g", ")">>),
     Str(<<"C", "a", " ", "(", "m", "g", "/", "1", "0", "0", " ", " ", "g", ")">>),
     Str(<<"C", "a", " ", "(", "/", "1", "0", "0", "g", ")">>),
     Str(<<"x", " ", "(", "a", " ", "(", "m", "g", "/", "1", "0", "0", "g", ")">>),
     Str(<<"C", "a", " ", "(", "g", ")">>),
     Str(<<"C", "a", " ", "(", "m", "g", "/", "1", "0", "0", "g", ")", " ", "(", "g", "/", "1", "0", "0", "g", ")">>)}

ExtractUnitArgs == {[fn |-> "extract_unit", nutrient_name |-> v] : v \in UnitNames}

\* extract_unit(nutrient_name)
ApplyExtractUnit ==
    /\ fn_pc = "ready"
    /\ fn_arg.fn = "extract_unit"
    /\ fn_ret' = extract_unit(fn_arg.nutrient_name)
    /\ fn_pc' = "done"
    /\ UNCHANGED <<fn_arg, ldVars, mainVars, qVars>>

\* The French and English names of one nutrient record.
NamePairs ==
    {None, Str(t_ca_fr), Str(t_fer_fr), Str(t_fer_eng), Str(<<"F", "e", " ", "(", "u", "g", "/", "1", "0", "0", "g", ")">>)}

UnitOfArgs == {[fn |-> "unit", const_nom_fr |-> f, const_nom_eng |-> e] : f \in NamePairs, e \in NamePairs}

\* unit = extract_unit(const_nom_fr) or extract_unit(const_nom_eng)
ApplyUnitOf ==
    /\ fn_pc = "ready"
    /\ fn_arg.fn = "unit"
    /\ fn_ret' = UnitOf(fn_arg.const_nom_fr, fn_arg.const_nom_eng)
    /\ fn_pc' = "done"
    /\ UNCHANGED <<fn_arg, ldVars, mainVars, qVars>>

\* A Python bool.
Bool(b) == [k |-> "bool", v |-> b]

\* The ages, in days, of the store file should_update_database looks at.
StoreAges == {0, 10, FreshnessDays - 1, FreshnessDays, FreshnessDays + 1, 400}

ShouldUpdateArgs ==
    {[fn |-> "should_update_database", exists |-> FALSE, age |-> 0]}
        \cup {[fn |-> "should_update_database", exists |-> TRUE, age |-> a] : a \in StoreAges}

\* should_update_database(db_path): reads the file's existence and its
\* modification time, writes nothing.
ApplyShouldUpdate ==
    /\ fn_pc = "ready"
    /\ fn_arg.fn = "should_update_database"
    /\ fn_ret' = Bool(should_update_database(fileExists, dbAge))
    /\ fn_pc' = "done"
    /\ UNCHANGED <<fn_arg, ldVars, mainVars, qVars>>

\* The longest composition document the batched load is applied to, in records.
MaxLoad == 4
\* The largest batch size the batched load is applied with.
MaxBatch == 2

\* COMPO records: two keys, a second value for the first key, and two records
\* the loop skips (a value that is no number, no alim_code element).
LoadKinds ==
    {Good1, Good2,
     CompoRec(Str(<<"5", "1">>), Str(<<"7">>), Str(<<"2">>)),
     CompoRec(Str(<<"5", "1">>), Str(<<"7">>), Str(s_traces)),
     CompoRec(NoElem, Str(<<"7">>), Str(<<"2">>))}

LoadArgs ==
    {[fn |-> "load_composition", recs |-> r, size |-> z] :
        r \in SeqsUpTo(LoadKinds, MaxLoad), z \in 1..MaxBatch}

\* Lines 252-281 over an empty composition table, the batch flushed at size rows.
ApplyLoadComposition ==
    /\ fn_pc = "ready"
    /\ fn_arg.fn = "load_composition"
    /\ fn_ret' = LoadCompoRecords(CreateSchema(EmptyDb), fn_arg.recs, <<>>, 0, fn_arg.size)
    /\ fn_pc' = "done"
    /\ UNCHANGED <<fn_arg, ldVars, mainVars, qVars>>

\* A character outside the escapes of a TLA+ string is written by its code point.
ControlChars == {"U+0000", "U+0008", "U+000B", "\f", "U+000E", "U+001F", "U+007F"}
s_amp == <<"&", "a", "m", "p", ";">>
s_lt1 == <<"<", "1", "U+00C2", "U+00B0">>
s_lt1_escaped == <<"&", "l", "t", ";", "1", "U+00C2", "U+00B0">>

\* str.replace(old, new): every occurrence of old, leftmost first, none overlapping.
RECURSIVE ReplaceSub(_, _, _)
ReplaceSub(s, old, new) ==
    IF Len(s) < Len(old) THEN s
    ELSE IF SubSeq(s, 1, Len(old)) = old
    THEN new \o ReplaceSub(SubSeq(s, Len(old) + 1, Len(s)), old, new)
    ELSE <<Head(s)>> \o ReplaceSub(Tail(s), old, new)

\* re.sub(r'[\x00-\x08\x0B\x0C\x0E-\x1F\x7F]', '', content)
StripControl(s) == SelectSeq(s, LAMBDA c : c \notin ControlChars)

\* Lines 203-208: the foods document's text before it is parsed.
RepairFoods(content) ==
    StripControl(ReplaceSub(ReplaceChar(content, "&", s_amp), s_lt1, s_lt1_escaped))

\* Lines 245-248: the composition document's text before it is parsed.
RepairCompo(content) == StripControl(content)

\* The decoded texts the fallback is applied to.
RepairTexts ==
    {
     Str(<<"p", "l", "a", "i", "n">>),
     Str(<<"a", "&", "b">>),
     Str(<<"a", "&", "a", "m", "p", ";", "b">>),
     Str(<<"a", "&", "l", "t", ";", "b">>),
     Str(<<"&", "#", "2", "3", "3", ";">>),
     Str(<<"&">>),
     Str(<<"a", " ", "&", " ", "b", " ", "&", "a", "m", "p", ";", " ", "c">>),
     Str(<<"a", "\t", "b", "\n">>),
     Str(<<"&", "&">>),
     Str(<<"<", "1", "U+00C2", "U+00B0", "C">>),
     Str(<<"a", "\f", "b">>),
     Str(<<"a", "U+0000", "&", "U+007F">>)}

RepairArgs ==
    {[fn |-> f, content |-> t] : f \in {"repair_foods", "repair_compo"}, t \in RepairTexts}

ApplyRepairFoods ==
    /\ fn_pc = "ready"
    /\ fn_arg.fn = "repair_foods"
    /\ fn_ret' = Str(RepairFoods(fn_arg.content.v))
    /\ fn_pc' = "done"
    /\ UNCHANGED <<fn_arg, ldVars, mainVars, qVars>>

ApplyRepairCompo ==
    /\ fn_pc = "ready"
    /\ fn_arg.fn = "repair_compo"
    /\ fn_ret' = Str(RepairCompo(fn_arg.content.v))
    /\ fn_pc' = "done"
    /\ UNCHANGED <<fn_arg, ldVars, mainVars, qVars>>

----------------------------------------------------------------------------

FnIdle ==
    /\ fn_arg = None
    /\ fn_ret = None
    /\ fn_pc = "idle"

QueryIdle ==
    /\ q_sql = None
    /\ q_before = disk
    /\ q_result = <<>>
    /\ q_raised = FALSE
    /\ q_executed = FALSE
    /\ q_failed = FALSE
    /\ q_open = 0
    /\ q_calls = 0

LoaderIdle ==
    /\ conn = EmptyDb
    /\ inTx = FALSE
    /\ ld_pc = "idle"
    /\ force = FALSE
    /\ food_count = 0
    /\ diskAtCall = disk
    /\ failedAt = "none"
    /\ runs = 0
    /\ forcedDone = <<>>

\* The program before its first start: no store, or the store of an earlier release.
Init ==
    /\ upstream \in Snapshots
    /\ \/ fileExists = FALSE /\ disk = EmptyDb /\ dbAge = 0
       \/ fileExists = TRUE /\ disk = PrevStore /\ dbAge \in Ages \ {0}
    /\ LoaderIdle
    /\ main_pc = "off"
    /\ existedAtStart = fileExists
    /\ initFailed = FALSE
    /\ QueryIdle
    /\ FnIdle

Next ==
    \/ LdCheck \/ LdDownload \/ LdExtract \/ LdConnect \/ LdSchema
    \/ LdNutrients \/ LdGroups \/ LdFoods \/ LdCompo \/ LdFts \/ LdCommit \/ LdVerify
    \/ MainFirstRun \/ MainUpdate \/ MainUpToDate \/ MainInitialized \/ MainInitFailed
    \/ MainStops \/ TimePasses

Spec == Init /\ [][Next]_vars

\* The query tool called while main serves (or with no store at all, as a caller
\* of the function may): over no store file, the empty file a failed first run
\* leaves, the store of an earlier release and the store built from Canon.
InitQuery ==
    /\ upstream = Canon
    /\ \/ fileExists = FALSE /\ disk = EmptyDb
       \/ fileExists = TRUE /\ disk \in {EmptyDb, PrevStore, Ingest(EmptyDb, Canon)}
    /\ dbAge = 0
    /\ LoaderIdle
    /\ main_pc = "serving"
    /\ existedAtStart = fileExists
    /\ initFailed = FALSE
    /\ QueryIdle
    /\ FnIdle

NextQuery == Query

SpecQuery == InitQuery /\ [][NextQuery]_vars

\* The query tool called from another process while main runs: a call of query
\* may fall between any two steps of initialize_database.
Failing == {[Canon EXCEPT !.compo = Unreadable], [Canon EXCEPT !.foods = Doc(<<>>)]}

InitConcurrent ==
    /\ upstream \in {Canon} \cup Failing
    /\ \/ fileExists = FALSE /\ disk = EmptyDb /\ dbAge = 0
       \/ fileExists = TRUE /\ disk = PrevStore /\ dbAge \in Ages \ {0}
    /\ LoaderIdle
    /\ main_pc = "off"
    /\ existedAtStart = fileExists
    /\ initFailed = FALSE
    /\ QueryIdle
    /\ FnIdle

NextConcurrent == Next \/ Query

SpecConcurrent == InitConcurrent /\ [][NextConcurrent]_vars

\* A function of the normalizer about to be applied: no store, or, for
\* should_update_database, a store file of some age.
FnArgs == ParseNumberArgs \cup ExtractUnitArgs \cup UnitOfArgs \cup ShouldUpdateArgs
              \cup LoadArgs \cup RepairArgs

InitFn ==
    /\ upstream = Canon
    /\ fn_arg \in FnArgs
    /\ fileExists = (fn_arg.fn = "should_update_database" /\ fn_arg.exists)
    /\ dbAge = IF fileExists THEN fn_arg.age ELSE 0
    /\ disk = IF fileExists THEN PrevStore ELSE EmptyDb
    /\ LoaderIdle
    /\ main_pc = "off"
    /\ existedAtStart = fileExists
    /\ initFailed = FALSE
    /\ QueryIdle
    /\ fn_ret = None
    /\ fn_pc = "ready"

NextFn ==
    \/ ApplyParseNumber
    \/ ApplyExtractUnit
    \/ ApplyUnitOf
    \/ ApplyShouldUpdate
    \/ ApplyLoadComposition
    \/ ApplyRepairFoods
    \/ ApplyRepairCompo

SpecFn == InitFn /\ [][NextFn]_vars

----------------------------------------------------------------------------
(* Properties *)

\* The rows of every table and the entries of the search index.
Tables(db) == <<db.foods, db.nutrients, db.food_groups, db.composition, db.fts, db.ftsTotal>>

LoadPhases == {"schema", "nutrients", "groups", "foods", "compo", "fts"}
IsErrorRow(row) == "error" \in DOMAIN row
OneErrorRow(rows) == Len(rows) = 1 /\ IsErrorRow(rows[1])

\* C1: when initialize_database raises in a load phase (schema creation,
\* nutrients, food groups, foods, composition, search-index rebuild) and a
\* populated store existed when it was called, every table of the store holds
\* exactly what it held before the call, and the store is still there to query.
C1_FailedLoadLeavesStore ==
    (ld_pc = "raised" /\ failedAt \in LoadPhases /\ diskAtCall.foods # {})
        => (Tables(disk) = Tables(diskAtCall) /\ fileExists /\ disk.schema)

\* C1 witness: the index rebuild raised after all of Canon was loaded over the
\* store of the earlier release, and that store is back.
C1_Witness ==
    /\ ld_pc = "raised"
    /\ failedAt = "fts"
    /\ upstream = Canon
    /\ diskAtCall = PrevStore
    /\ disk = PrevStore

\* C2: when the foods table is empty after the load phases, initialize_database
\* raises and none of that run's writes is committed: the store's tables are what
\* they were when the call began.
C2_VerifyBeforeCommit ==
    (ld_pc = "raised" /\ failedAt = "verify") => Tables(disk) = Tables(diskAtCall)

\* C3: when main's call of initialize_database raised and no store file existed
\* when main started, main exits non-zero and never serves; when a store file
\* existed, main goes on to serve.
C3_FirstRunFailureExits ==
    /\ (initFailed /\ ~existedAtStart) => main_pc = "exit1"
    /\ (initFailed /\ existedAtStart) => main_pc \in {"serving", "exit0"}

\* C4: after initialize_database returns, every composition row's alim_code is
\* that of a foods row and its const_code that of a nutrients row.
C4_ReferentialIntegrity ==
    ld_pc = "returned" =>
        \A c \in disk.composition :
            /\ \E f \in disk.foods : f.alim_code = c.alim_code
            /\ \E n \in disk.nutrients : n.const_code = c.const_code

\* C5: a second forced ingestion of the same archive leaves the same rows in every
\* table and the same search-index entries as the first.
C5_ForcedTwiceSame ==
    Len(forcedDone) >= 2 => Tables(forcedDone[2]) = Tables(forcedDone[1])

\* C6: a statement whose trimmed, lower-cased text begins with neither 'select'
\* nor 'with' is answered with exactly one error row and is not handed to the
\* engine; and no call, whatever its statement, changes the store.
C6_RejectedAndUnchanged ==
    q_calls > 0 =>
        /\ ~Accepted(q_sql.text) => (OneErrorRow(q_result) /\ ~q_executed)
        /\ disk = q_before

\* C6 witness: a second call handed the engine a write behind a 'with' prefix
\* over a populated store.
C6_Witness ==
    /\ q_calls >= 2
    /\ q_sql.text = sql_with_delete
    /\ q_executed
    /\ q_before.foods # {}
    /\ q_result = <<ErrorRow(m_read_only)>>

\* C7: query never raises; with no store file it answers one error row saying the
\* database is not initialized; when opening the store or executing the statement
\* raised it answers exactly one row with an 'error' key; and it leaves no
\* connection open.
C7_NeverRaises ==
    q_calls > 0 =>
        /\ ~q_raised
        /\ q_open = 0
        /\ ~fileExists => (OneErrorRow(q_result)
                           /\ Contains(q_result[1].error, s_not_initialized))
        /\ q_failed => OneErrorRow(q_result)

\* C7 witness: the engine raised a ProgrammingError, which only the second except
\* clause catches, on an open connection.
C7_Witness ==
    /\ q_calls > 0
    /\ q_failed
    /\ q_executed
    /\ q_sql.kind = "two"
    /\ q_result = <<ErrorRow(p_database_error \o e_one_statement)>>
    /\ q_open = 0

\* C8: a statement beginning with INSERT, submitted against an existing store,
\* is answered with exactly one row with an 'error' key whose message contains
\* 'read-only'.
C8_WriteSaysReadOnly ==
    (q_calls > 0 /\ fileExists /\ StartsWith(Lower(Strip(q_sql.text)), k_insert))
        => (OneErrorRow(q_result) /\ Contains(q_result[1].error, s_read_only))

\* An identifier element that is missing, or present with empty text.
IdAbsent(x) == clean_text(TextOrNone(x)) = None
\* An identifier that is absent or reads as an integer.
IdAbsentOrInt(x) == IdAbsent(x) \/ PyIntOk(clean_text(TextOrNone(x)).v)
\* An archive whose documents all parse and whose every record has identifiers
\* that are usable or absent.
OnlyAbsentIds(snapshot) ==
    /\ Parses(snapshot.nutrients)
    /\ \A i \in 1..Len(snapshot.nutrients.recs) :
          IdAbsentOrInt(snapshot.nutrients.recs[i].const_code)
    /\ Parses(snapshot.groups) \/ snapshot.groups = AbsentFile
    /\ Parses(snapshot.foods)
    /\ \A i \in 1..Len(snapshot.foods.recs) : IdAbsentOrInt(snapshot.foods.recs[i].alim_code)
    /\ Parses(snapshot.compo)
    /\ \A i \in 1..Len(snapshot.compo.recs) :
          /\ IdAbsentOrInt(snapshot.compo.recs[i].alim_code)
          /\ IdAbsentOrInt(snapshot.compo.recs[i].const_code)

\* C9: a record whose identifier is absent is skipped and never aborts the
\* ingestion: over an archive whose only faults are absent identifiers, no load
\* phase (nutrients, food groups, foods, composition) raises.
C9_AbsentIdSkipped ==
    OnlyAbsentIds(upstream)
        => ~(ld_pc = "raised" /\ failedAt \in {"nutrients", "groups", "foods", "compo"})

\* C10: every stored composition row has a non-NULL numeric value.
C10_NoNullValue ==
    \A c \in disk.composition : c.teneur.k = "real"

\* Every text field the claim names, as stored.
TextFields(db) ==
    {f.alim_nom_fr : f \in db.foods} \cup {f.alim_nom_eng : f \in db.foods}
    \cup {f.alim_grp_code : f \in db.foods}
    \cup {n.const_nom_fr : n \in db.nutrients} \cup {n.const_nom_eng : n \in db.nutrients}
    \cup {g.grp_code : g \in db.food_groups} \cup {g.grp_nom_fr : g \in db.food_groups}
    \cup {g.grp_nom_eng : g \in db.food_groups}
    \cup {c.code_confiance : c \in db.composition}
\* NULL, or a trimmed text that is neither empty nor 'missing'.
CleanStored(x) == x = None \/ (Strip(x.v) = x.v /\ x.v \notin {<<>>, s_missing})

\* C11: after initialize_database returns, every stored text field (food names,
\* nutrient names, food-group names, group codes, confidence codes) is NULL or a
\* trimmed text that is neither empty nor the literal 'missing'.
C11_TextFieldsClean ==
    ld_pc = "returned" => \A x \in TextFields(disk) : CleanStored(x)

\* An identifier that is present and reads as an integer.
IdInt(x) == ~IdAbsent(x) /\ PyIntOk(clean_text(TextOrNone(x)).v)
IdOf(x) == PyInt(clean_text(TextOrNone(x)).v)
\* The records of a sequence have pairwise distinct keys.
DistinctKeys(recs, Key(_)) ==
    \A i, j \in 1..Len(recs) : i # j => Key(recs[i]) # Key(recs[j])
NutrientKey(r) == IdOf(r.const_code)
FoodKey(r) == IdOf(r.alim_code)
CompoKey(r) == <<IdOf(r.alim_code), IdOf(r.const_code)>>
\* A dataset of foods, nutrients and composition records with distinct keys, every
\* composition value a number and every reference valid.
RoundTripDataset(snapshot) ==
    /\ Parses(snapshot.nutrients) /\ Parses(snapshot.foods) /\ Parses(snapshot.compo)
    /\ Parses(snapshot.groups)
    /\ \A i \in 1..Len(snapshot.nutrients.recs) : IdInt(snapshot.nutrients.recs[i].const_code)
    /\ \A i \in 1..Len(snapshot.foods.recs) : IdInt(snapshot.foods.recs[i].alim_code)
    /\ \A i \in 1..Len(snapshot.compo.recs) :
          /\ IdInt(snapshot.compo.recs[i].alim_code)
          /\ IdInt(snapshot.compo.recs[i].const_code)
          /\ parse_number(TextOrNone(snapshot.compo.recs[i].teneur)).k = "real"
          /\ \E j \in 1..Len(snapshot.foods.recs) :
                FoodKey(snapshot.foods.recs[j]) = IdOf(snapshot.compo.recs[i].alim_code)
          /\ \E j \in 1..Len(snapshot.nutrients.recs) :
                NutrientKey(snapshot.nutrients.recs[j]) = IdOf(snapshot.compo.recs[i].const_code)
    /\ DistinctKeys(snapshot.nutrients.recs, NutrientKey)
    /\ DistinctKeys(snapshot.foods.recs, FoodKey)
    /\ DistinctKeys(snapshot.compo.recs, CompoKey)
\* The foods of db in whose names token occurs.
FoodsNaming(db, token) ==
    {f \in db.foods : token \in Tokens(f.alim_nom_fr) \cup Tokens(f.alim_nom_eng)}
FoodTokens(db) == UNION {Tokens(f.alim_nom_fr) \cup Tokens(f.alim_nom_eng) : f \in db.foods}

\* C12: a first ingestion, into an empty store, of N foods, M nutrients and K
\* composition records with distinct keys, parseable values and valid references
\* leaves N foods rows, M nutrients rows and K composition rows, and a search for a
\* token that occurs in exactly one food's name returns exactly that food.
C12_RoundTrip ==
    (ld_pc = "returned" /\ diskAtCall = EmptyDb /\ RoundTripDataset(upstream)) =>
        /\ Cardinality(disk.foods) = Len(upstream.foods.recs)
        /\ Cardinality(disk.nutrients) = Len(upstream.nutrients.recs)
        /\ Cardinality(disk.composition) = Len(upstream.compo.recs)
        /\ \A token \in FoodTokens(disk) :
              Cardinality(FoodsNaming(disk, token)) = 1 =>
                  Search(disk, token) = Returns(FoodsInOrder(ContentRows(disk,
                      {f.alim_code : f \in FoodsNaming(disk, token)})), disk)

s_12c5 == <<"1", "2", ",", "5">>
s_100 == <<"1", "0", "0">>

\* C13: parse_number returns absent for absent or empty input and for '-' and
\* 'traces'; '12,5' gives 12.5 and '100' gives 100.0; and whatever the text, the
\* result is absent or a finite number.
C13_ParseNumber ==
    (fn_pc = "done" /\ fn_arg.fn = "parse_number") =>
        /\ (fn_arg.value = None \/ Strip(fn_arg.value.v) \in {<<>>, s_dash, s_traces})
               => fn_ret = None
        /\ fn_arg.value = Str(s_12c5) => fn_ret = Normal(125, 1)
        /\ fn_arg.value = Str(s_100) => fn_ret = Normal(100, 0)
        /\ fn_ret = None \/ fn_ret.k = "real"


s_per100g == <<"/", "1", "0", "0", "g">>
EndsWith(s, p) == Len(p) <= Len(s) /\ SubSeq(s, Len(s) - Len(p) + 1, Len(s)) = p
NoWhitespace(s) == \A i \in 1..Len(s) : s[i] \notin Whitespace

\* C14: extract_unit returns the unit found in parentheses, ending in /100g,
\* with all its internal whitespace removed, and nothing when the name is
\* absent or holds no such pattern; the unit of a nutrient is the one of its
\* French name when that name yields one, and the one of its English name
\* only otherwise.
C14_ExtractUnit ==
    /\ (fn_pc = "done" /\ fn_arg.fn = "extract_unit") =>
           /\ fn_arg.nutrient_name = None => fn_ret = None
           /\ (fn_arg.nutrient_name # None /\ ~Contains(fn_arg.nutrient_name.v, s_per100))
                  => fn_ret = None
           /\ fn_ret # None => (EndsWith(fn_ret.v, s_per100g) /\ NoWhitespace(fn_ret.v))
    /\ (fn_pc = "done" /\ fn_arg.fn = "unit") =>
           fn_ret = IF extract_unit(fn_arg.const_nom_fr) # None
                    THEN extract_unit(fn_arg.const_nom_fr)
                    ELSE extract_unit(fn_arg.const_nom_eng)


\* C15: should_update_database answers true exactly when no store file exists
\* or the file is more than 365 days old (365 days exactly is fresh), and it
\* leaves the file, its age and its content as they were.
C15_StaleExactly ==
    (fn_pc = "done" /\ fn_arg.fn = "should_update_database") =>
        /\ fn_ret = Bool(~fn_arg.exists \/ fn_arg.age > 365)
        /\ (fn_arg.exists /\ fn_arg.age = 400) => fn_ret = Bool(TRUE)
        /\ (fn_arg.exists /\ fn_arg.age = 10) => fn_ret = Bool(FALSE)
        /\ fileExists = fn_arg.exists
        /\ dbAge = fn_arg.age
        /\ disk = IF fn_arg.exists THEN PrevStore ELSE EmptyDb

\* The file is exactly 365 days old and is judged fresh.
C15_Witness ==
    /\ fn_pc = "done"
    /\ fn_arg.fn = "should_update_database"
    /\ fn_arg.exists
    /\ fn_arg.age = 365
    /\ fn_ret = Bool(FALSE)


\* The rows of the four tables.
Rows(db) == <<db.foods, db.nutrients, db.food_groups, db.composition>>

\* C16: after a successful ingestion over an existing store, the tables hold
\* exactly the rows derived from the new archive: a row of the previous
\* generation with no counterpart in the new archive is gone.
C16_RebuiltWholesale ==
    (ld_pc = "returned" /\ food_count > 0 /\ diskAtCall = PrevStore) =>
        Rows(disk) = Rows(Ingest(EmptyDb, upstream))


\* A COMPO record the loop keeps: both codes present and a value parse_number
\* does not turn into nothing.
AcceptedCompo(r) ==
    /\ clean_text(TextOrNone(r.alim_code)) # None
    /\ clean_text(TextOrNone(r.const_code)) # None
    /\ parse_number(TextOrNone(r.teneur)) # None
CompoRow(r) ==
    [alim_code |-> PyInt(clean_text(TextOrNone(r.alim_code)).v),
     const_code |-> PyInt(clean_text(TextOrNone(r.const_code)).v),
     teneur |-> parse_number(TextOrNone(r.teneur)),
     code_confiance |-> clean_text(TextOrNone(r.code_confiance))]
\* The records written one INSERT OR REPLACE at a time, in input order.
RECURSIVE OneAtATime(_, _)
OneAtATime(db, recs) ==
    IF recs = <<>> THEN db
    ELSE IF AcceptedCompo(Head(recs))
    THEN OneAtATime(InsertComposition(db, CompoRow(Head(recs))), Tail(recs))
    ELSE OneAtATime(db, Tail(recs))
AcceptedCount(recs) == Cardinality({i \in 1..Len(recs) : AcceptedCompo(recs[i])})

\* C17: whatever the number of records relative to the batch size, and with or
\* without repeated (food, nutrient) keys, the batched load leaves the
\* composition table the one-at-a-time writes leave, and reports as its count
\* the number of accepted records.
C17_BatchedEqualsUnbatched ==
    (fn_pc = "done" /\ fn_arg.fn = "load_composition") =>
        /\ fn_ret.ok
        /\ fn_ret.db.composition = OneAtATime(CreateSchema(EmptyDb), fn_arg.recs).composition
        /\ fn_ret.n = AcceptedCount(fn_arg.recs)

\* More accepted records than one batch, a remainder after the last full batch,
\* a skipped record and a key written twice with different values.
C17_Witness ==
    /\ fn_pc = "done"
    /\ fn_arg.fn = "load_composition"
    /\ fn_arg.size > 1
    /\ AcceptedCount(fn_arg.recs) > fn_arg.size
    /\ AcceptedCount(fn_arg.recs) % fn_arg.size # 0
    /\ AcceptedCount(fn_arg.recs) < Len(fn_arg.recs)
    /\ Cardinality(fn_ret.db.composition) < AcceptedCount(fn_arg.recs)
    /\ fn_ret.n = AcceptedCount(fn_arg.recs)


\* An escaped entity opens at position i: one of the five named entities or a
\* decimal character reference.
NamedEntities ==
    {s_amp, <<"&", "l", "t", ";">>, <<"&", "g", "t", ";">>,
     <<"&", "q", "u", "o", "t", ";">>, <<"&", "a", "p", "o", "s", ";">>}
EntityAt(s, i) ==
    \/ \E e \in NamedEntities :
          i + Len(e) - 1 <= Len(s) /\ SubSeq(s, i, i + Len(e) - 1) = e
    \/ /\ i + 3 <= Len(s)
       /\ s[i] = "&" /\ s[i + 1] = "#"
       /\ \E j \in (i + 3)..Len(s) :
             s[j] = ";" /\ \A m \in (i + 2)..(j - 1) : IsDigit(s[m])
NoBareAmpersand(s) == \A i \in 1..Len(s) : s[i] = "&" => EntityAt(s, i)
\* Text the repair has nothing to do on.
WellFormedText(s) ==
    /\ NoBareAmpersand(s)
    /\ \A i \in 1..Len(s) : s[i] \notin ControlChars /\ s[i] # "<"
RepairOf(fn, s) == IF fn = "repair_foods" THEN RepairFoods(s) ELSE RepairCompo(s)

\* C19: for the foods and for the composition document, the repaired text
\* holds no ampersand outside an escaped entity, text that was well-formed
\* comes back unchanged, and repairing the repaired text changes nothing.
C19_RepairEscapesOnce ==
    (fn_pc = "done" /\ fn_arg.fn \in {"repair_foods", "repair_compo"}) =>
        /\ NoBareAmpersand(fn_ret.v)
        /\ WellFormedText(fn_arg.content.v) => fn_ret = fn_arg.content
        /\ RepairOf(fn_arg.fn, fn_ret.v) = fn_ret.v


\* initialize_database has been called and has neither returned nor raised.
Ingesting == ld_pc \in {"check", "download", "extract", "connect"} \cup LoadPhases \cup {"commit", "verify"}
\* What a reader of the foods table may be answered while the first ingestion of
\* a behaviour runs: the state before it, or the complete new store.
BeforeOrAfter ==
    {IF diskAtCall.schema THEN FoodsInOrder(diskAtCall.foods)
                          ELSE <<ErrorRow(m_not_initialized)>>,
     FoodsInOrder(Ingest(diskAtCall, upstream).foods)}

\* C18: a query that reads the foods table while an ingestion is under way is
\* answered from the store as it was before the ingestion (the 'not
\* initialized' error when there was none) or from the complete new store,
\* never from tables that exist and hold none or part of the new data.
C18_BeforeOrAfter ==
    [][(/\ q_calls' = q_calls + 1
        /\ q_sql'.kind = "read_foods"
        /\ ~q_raised'
        /\ Ingesting
        /\ runs = 1)
           => (q_failed' \/ q_result' \in BeforeOrAfter)]_vars

====
